---- MODULE Spec2Model ----
(***************************************************************************)
(* Breath detector of the birthday-cake page (src/script.js).              *)
(*                                                                         *)
(* One session of the page: initMic(false) is called on DOMContentLoaded,  *)
(* a failed non-gesture attempt installs the gesture gate, a successful    *)
(* attempt runs startAnalyser -> calibrate -> loopDetect.  calibrate and   *)
(* loopDetect are driven by requestAnimationFrame callbacks.               *)
(*                                                                         *)
(* A frame is the pair of features the two extractors return for the       *)
(* buffers the analyser delivers at one instant: rms = computeRMS(td) and  *)
(* hf = computeHighFreqAvg(fd).  The analyser is the environment, so each  *)
(* read draws a frame from the set `source`.  Features are integers here;  *)
(* the code only compares, adds constants to, sorts and indexes them.      *)
(*                                                                         *)
(* src/unnamed/part_001 is script.js with comments.  src/unnamed/part_000  *)
(* is an older variant of the same script, loaded in place of script.js:   *)
(* no calibration and no gate, a timer that calls blowOutCandle every 200  *)
(* ms and an isBlowing that compares the average bin with 40.  It has its  *)
(* own initial state and actions; `poller` tells which script the page     *)
(* loaded.                                                                 *)
(***************************************************************************)
EXTENDS Integers, Sequences, FiniteSets, TLC

VARIABLES
    micCalls,      \* activations of initMic: [fromGesture, pc, ctx], ctx the
                   \* context whose resume() the activation awaits, 0 = none
    started,       \* latch of the gesture gate's start handler
    overlay,       \* TRUE while the gate element is referenced and in the DOM
    gates,         \* number of gesture gates created
    ctxs,          \* state of every AudioContext created so far
    audioContext,  \* index into ctxs of the variable audioContext, 0 = undefined
    analyserCtx,   \* index of the context the analyser and mic belong to, 0 = none
    resuming,      \* contexts with a resume() promise that has not settled
    calibrated,
    baselineRMS,
    baselineHF,
    cals,          \* closures of calibrate(): [t0, rmsBuf, hfBuf, resolved] and
                   \* log, the frames step() read in order: [rms, hf, at]
    now,           \* performance.now()
    rafQueue,      \* pending requestAnimationFrame callbacks: [id, cb, cal]
    rafId,         \* 0 = undefined
    thenQueue,     \* pending calibrate().then(loopDetect) reactions
    out,           \* onlyCandle.classList.contains("out")
    notifications, \* number of classList.add("out") calls
    classifySeq,   \* flips on every call of isBlowing
    probe,         \* frame and result of the latest isBlowing call
    source,        \* frames the analyser can deliver in this session
    event,         \* the handler or reaction that ran last
    poller,        \* part_000: [pc, dataArray], pc "absent" when the page
                   \* loaded script.js, dataArray the bins isBlowing read last
    fx             \* a frequency buffer and the tilt computeHighFreqAvg gave it

gateVars == <<started, overlay, gates>>
ctxVars  == <<ctxs, audioContext, analyserCtx, resuming>>
baseVars == <<baselineRMS, baselineHF>>
detVars  == <<out, notifications, classifySeq, probe>>
vars == <<micCalls, started, overlay, gates, ctxs, audioContext, analyserCtx,
          resuming, calibrated, baselineRMS, baselineHF, cals, now, rafQueue,
          rafId, thenQueue, out, notifications, classifySeq, probe, source, event, poller,
          fx>>

----------------------------------------------------------------------------
(* Bounds of the model.                                                    *)

\* Shortest delay, in ms, between two frame callbacks during calibration.
MinGap == 300
\* Largest baseline value of the classifier sweep.
MaxBaseline == 9
\* Largest sample value of the calibration sweep.
MaxSample == 3
\* Largest length of a frequency buffer of the extractor sweep.
MaxLen == 5
\* Largest number of bins of a buffer the timer of part_000 reads.
MaxBins == 2

\* Delays between frame callbacks: regular, and throttled by the host.
Gaps == {MinGap, 5 * MinGap}

Frame(r, h) == [rms |-> r, hf |-> h]

\* A quiet room with a little noise, and one blow.
QuietFrames == {Frame(2, 3), Frame(3, 4)}
BlowFrame == Frame(15, 25)
SessionFrames == QuietFrames \cup {BlowFrame}

\* Every feature pair up to just above the highest thresholds.
SweepFrames == {Frame(r, h) : r \in 0..(MaxBaseline + 13), h \in 0..(MaxBaseline + 19)}

\* Every sample value for either feature, tilt equal to or mirroring energy.
SampleFrames ==
    UNION {{Frame(r, r), Frame(r, MaxSample - r)} : r \in 0..MaxSample}

\* Bin values of the extractor sweep, and its short buffers.
BinValues == {0, 7, 255}
ShortBuffers == UNION {[1..n -> BinValues] : n \in 0..MaxLen}

\* Lengths at which the double product length * 0.35 falls below the whole
\* number 35 * length / 100, and a length next to them at which it does not.
RoundedLens == {160, 180, 340}

\* Buffers of these lengths that are silent but for one bin at or next to
\* an end of the band.
SpikeAt(L) ==
    {(35 * L) \div 100 - 2, (35 * L) \div 100 - 1, (35 * L) \div 100,
     (9 * L) \div 10 - 1, (9 * L) \div 10}
SpikeBuffers ==
    UNION {{[i \in 1..L |-> IF i = p + 1 THEN 255 ELSE 0] : p \in SpikeAt(L)} :
              L \in RoundedLens}

FreqBuffers == ShortBuffers \cup SpikeBuffers

\* Bin values around the threshold of part_000, and the buffers its
\* analyser can deliver.
PollBinValues == {0, 40, 41, 255}
DataArrays == UNION {[1..n -> PollBinValues] : n \in 1..MaxBins}

CtxStates == {"running", "suspended"}
NoPoller == [pc |-> "absent", dataArray |-> <<>>]
NoProbe == [rms |-> -1, hf |-> -1, result |-> FALSE]
NoFx == [fd |-> <<>>, hf |-> <<-1, 1>>]

----------------------------------------------------------------------------
(* Pure parts of the code.                                                 *)

Max(a, b) == IF a > b THEN a ELSE b

\* Slip: the buffers are never sorted.
sortAscMissing(buf) == buf

\* Array.prototype.sort((a,b)=>a-b)
sortAsc(buf) == SortSeq(buf, LAMBDA a, b : a < b)

\* Slip: Math.floor((buf.length - 1) / 2), the lower middle.
medianOrZeroLower(sorted) ==
    LET i == (Len(sorted) - 1) \div 2
    IN IF i + 1 \in DOMAIN sorted THEN sorted[i + 1] ELSE 0

\* Slip: Math.ceil(buf.length / 2).
medianOrZeroCeil(sorted) ==
    LET i == (Len(sorted) + 1) \div 2
    IN IF i + 1 \in DOMAIN sorted THEN sorted[i + 1] ELSE 0

\* buf[Math.floor(buf.length/2)] || 0 on a sorted buffer: an index past the
\* end reads undefined, and undefined || 0 is 0 (as is 0 || 0).
medianOrZero(sorted) ==
    LET i == Len(sorted) \div 2
    IN IF i + 1 \in DOMAIN sorted THEN sorted[i + 1] ELSE 0

\* for (let i = start; i < end; i++) sum += freqData[i], i counting from 0.
RECURSIVE sumBins(_, _, _)
sumBins(freqData, i, end) ==
    IF i < end THEN freqData[i + 1] + sumBins(freqData, i + 1, end) ELSE 0

\* The largest power of two that is not above q, for q >= 1.
RECURSIVE Pow2Floor(_)
Pow2Floor(q) == IF q < 2 THEN 1 ELSE 2 * Pow2Floor(q \div 2)

\* Math.floor(length * 0.35) in doubles.  The double 0.35 is 0.35 - 0.4 *
\* 2^-54, so the exact product is 0.35 * length - 0.4 * length * 2^-54.
\* Its floor can differ from the floor of 0.35 * length only when 0.35 *
\* length is a whole number k, that is 35 * length = 100 * k; the product
\* is then k - (8k/7) * 2^-54 and the multiplication rounds it to k unless
\* (8k/7) * 2^-54 is more than half the spacing 2^(j-52) of the doubles
\* between 2^j <= k and 2^(j+1), that is unless 4k > 7 * 2^j (a tie
\* rounds to k, whose significand is even).  It is 62 for length 180.
floorTimes035(length) ==
    LET k == (length * 35) \div 100
    IN IF (length * 35) % 100 = 0 /\ k >= 1 /\ 4 * k > 7 * Pow2Floor(k)
       THEN k - 1
       ELSE k

\* Math.floor(length * 0.9) in doubles.  The double 0.9 is above 0.9 by
\* 0.2 * 2^-53; the exact product is at or above 0.9 * length and below
\* the next whole number, and so is the rounded one.
floorTimes09(length) == (length * 9) \div 10

\* computeHighFreqAvg; the quotient sum / n is kept as <<sum, n>>, and the
\* number 0 is <<0, 1>>.
computeHighFreqAvg(freqData) ==
    LET start == floorTimes035(Len(freqData))
        end   == floorTimes09(Len(freqData))
        n     == IF end > start THEN end - start ELSE 0
    IN IF n # 0 THEN <<sumBins(freqData, start, end), n>> ELSE <<0, 1>>

\* Slip: performance.now() - t0 <= 1200.
stepContinuesLate(t0, t) == t - t0 <= 1200

\* Slip: the comparison is turned around.
stepContinuesInverted(t0, t) == t - t0 >= 1200

\* performance.now() - t0 < 1200
stepContinues(t0, t) == t - t0 < 1200

\* Slip: hf >= baselineHF + 18.
isBlowingNonStrict(rms, hf, bRMS, bHF) ==
    LET rmsThresh  == Max(bRMS + 5, 10)
        hfThresh   == Max(bHF + 6, 14)
        hissStrong == hf >= bHF + 18
        combined   == (hf > hfThresh) /\ (rms > rmsThresh \/ rms > bRMS + 12)
    IN hissStrong \/ combined

\* Slip: rms > baselineRMS + 2.
isBlowingOffset2(rms, hf, bRMS, bHF) ==
    LET rmsThresh  == Max(bRMS + 5, 10)
        hfThresh   == Max(bHF + 6, 14)
        hissStrong == hf > bHF + 18
        combined   == (hf > hfThresh) /\ (rms > rmsThresh \/ rms > bRMS + 2)
    IN hissStrong \/ combined

\* Slip: hissStrong ^ combined.
isBlowingXor(rms, hf, bRMS, bHF) ==
    LET rmsThresh  == Max(bRMS + 5, 10)
        hfThresh   == Max(bHF + 6, 14)
        hissStrong == hf > bHF + 18
        combined   == (hf > hfThresh) /\ (rms > rmsThresh \/ rms > bRMS + 12)
    IN hissStrong # combined

\* The decision of isBlowing on the features it extracted.
isBlowing(rms, hf, bRMS, bHF) ==
    LET rmsThresh  == Max(bRMS + 5, 10)
        hfThresh   == Max(bHF + 6, 14)
        hissStrong == hf > bHF + 18
        combined   == (hf > hfThresh) /\ (rms > rmsThresh \/ rms > bRMS + 12)
    IN hissStrong \/ combined

\* requestAnimationFrame returns a handle no pending callback has.
FreshHandle(q) ==
    CHOOSE h \in 1..(Cardinality(q) + 2) : h \notin ({e.id : e \in q} \cup {rafId})

\* cancelAnimationFrame(id)
Cancel(q, id) == {e \in q : e.id # id}

\* isBlowing of part_000: average > 40 with average = sum / bufferLength,
\* the sum over all bins.
isBlowingPart000(dataArray) ==
    sumBins(dataArray, 0, Len(dataArray)) > 40 * Len(dataArray)

\* The state of the detector (spec 4.4) as the code's flags encode it.
\* part_000 has no calibration: its detector classifies, with the fixed
\* threshold, from the moment the timer is installed.
DetectorState ==
    IF out THEN "Triggered"
    ELSE IF calibrated \/ poller.pc = "interval" THEN "Armed"
    ELSE IF Len(cals) > 0 THEN "Calibrating"
    ELSE "Uncalibrated"

\* No promise reaction is queued: the reaction of calibrate().then and the
\* continuation of an initMic whose resume() has settled run before any
\* other handler does.
NoReaction ==
    /\ thenQueue = 0
    /\ \A i \in DOMAIN micCalls : micCalls[i].pc # "resumed"

----------------------------------------------------------------------------
(* Initial state: the DOMContentLoaded handler has run, initMic(false) is  *)
(* waiting for getUserMedia, the resume listeners are installed.           *)

Init ==
    /\ micCalls = <<[fromGesture |-> FALSE, pc |-> "getUserMedia", ctx |-> 0]>>
    /\ started = FALSE
    /\ overlay = FALSE
    /\ gates = 0
    /\ ctxs = <<>>
    /\ audioContext = 0
    /\ analyserCtx = 0
    /\ resuming = {}
    /\ calibrated = FALSE
    /\ baselineRMS = 0
    /\ baselineHF = 0
    /\ cals = <<>>
    /\ now = 0
    /\ rafQueue = {}
    /\ rafId = 0
    /\ thenQueue = 0
    /\ out = FALSE
    /\ notifications = 0
    /\ classifySeq = 0
    /\ probe = NoProbe
    /\ source = SessionFrames
    /\ event = "DOMContentLoaded"
    /\ poller = NoPoller
    /\ fx = NoFx

----------------------------------------------------------------------------
(* calibrate                                                               *)

\* Slip: step tests the clock before it reads the frame, and reads none
\* once the window has closed.
stepRunCheckFirst(cs, k, f, t, q, flag) ==
    LET c == [cs[k] EXCEPT !.rmsBuf = Append(@, f.rms), !.hfBuf = Append(@, f.hf),
                           !.log = Append(@, [rms |-> f.rms, hf |-> f.hf, at |-> t])]
        d == [cs[k] EXCEPT !.rmsBuf = sortAsc(@), !.hfBuf = sortAsc(@),
                           !.resolved = TRUE]
    IN IF stepContinues(c.t0, t)
       THEN /\ cals' = [cs EXCEPT ![k] = c]
            /\ rafQueue' = q \cup {[id |-> FreshHandle(q), cb |-> "step", cal |-> k]}
            /\ calibrated' = flag
            /\ UNCHANGED <<baselineRMS, baselineHF, thenQueue>>
       ELSE /\ cals' = [cs EXCEPT ![k] = d]
            /\ rafQueue' = q
            /\ baselineRMS' = medianOrZero(d.rmsBuf)
            /\ baselineHF' = medianOrZero(d.hfBuf)
            /\ calibrated' = TRUE
            /\ thenQueue' = IF cs[k].resolved THEN thenQueue ELSE thenQueue + 1

\* Slip: the else is missing, step requests the next frame in any case.
stepRunNoElse(cs, k, f, t, q, flag) ==
    LET c == [cs[k] EXCEPT !.rmsBuf = Append(@, f.rms), !.hfBuf = Append(@, f.hf),
                           !.log = Append(@, [rms |-> f.rms, hf |-> f.hf, at |-> t])]
        d == [c EXCEPT !.rmsBuf = sortAsc(@), !.hfBuf = sortAsc(@), !.resolved = TRUE]
        r == q \cup {[id |-> FreshHandle(q), cb |-> "step", cal |-> k]}
    IN IF stepContinues(c.t0, t)
       THEN /\ cals' = [cs EXCEPT ![k] = c]
            /\ rafQueue' = r
            /\ calibrated' = flag
            /\ UNCHANGED <<baselineRMS, baselineHF, thenQueue>>
       ELSE /\ cals' = [cs EXCEPT ![k] = d]
            /\ rafQueue' = r
            /\ baselineRMS' = medianOrZero(d.rmsBuf)
            /\ baselineHF' = medianOrZero(d.hfBuf)
            /\ calibrated' = TRUE
            /\ thenQueue' = IF cs[k].resolved THEN thenQueue ELSE thenQueue + 1

\* One run of step() for closure k of the closures cs, reading frame f at
\* time t, with q the callbacks still pending and flag the value of
\* calibrated when step is entered.
stepRun(cs, k, f, t, q, flag) ==
    LET c == [cs[k] EXCEPT !.rmsBuf = Append(@, f.rms), !.hfBuf = Append(@, f.hf),
                           !.log = Append(@, [rms |-> f.rms, hf |-> f.hf, at |-> t])]
        d == [c EXCEPT !.rmsBuf = sortAsc(@), !.hfBuf = sortAsc(@), !.resolved = TRUE]
    IN IF stepContinues(c.t0, t)
       THEN /\ cals' = [cs EXCEPT ![k] = c]
            /\ rafQueue' = q \cup {[id |-> FreshHandle(q), cb |-> "step", cal |-> k]}
            /\ calibrated' = flag
            /\ UNCHANGED <<baselineRMS, baselineHF, thenQueue>>
       ELSE /\ cals' = [cs EXCEPT ![k] = d]
            /\ rafQueue' = q
            /\ baselineRMS' = medianOrZero(d.rmsBuf)
            /\ baselineHF' = medianOrZero(d.hfBuf)
            /\ calibrated' = TRUE
            \* resolve() settles the promise once; its reaction is queued once
            /\ thenQueue' = IF cs[k].resolved THEN thenQueue ELSE thenQueue + 1

\* calibrate(): calibrated = false, fresh buffers, t0, and the first step().
calibrate(f) ==
    LET c0 == [t0 |-> now, rmsBuf |-> <<>>, hfBuf |-> <<>>, resolved |-> FALSE,
               log |-> <<>>]
    IN stepRun(Append(cals, c0), Len(cals) + 1, f, now, rafQueue, FALSE)

\* startAnalyser(stream) after initMic left the contexts cs.
startAnalyser(cs) ==
    \E st \in CtxStates, f \in source :
        /\ ctxs' = Append(cs, st)
        /\ audioContext' = Len(cs) + 1
        /\ analyserCtx' = Len(cs) + 1
        /\ calibrate(f)

\* A frame callback runs step() of closure e.cal.
step(e) ==
    /\ event' = "step"
    /\ NoReaction
    /\ e.cb = "step"
    /\ \E f \in source, gap \in Gaps :
          /\ now' = now + gap
          /\ stepRun(cals, e.cal, f, now + gap, rafQueue \ {e}, calibrated)
    /\ UNCHANGED <<micCalls, gateVars, ctxVars, rafId, detVars, source, poller, fx>>

----------------------------------------------------------------------------
(* loopDetect                                                              *)

\* Slip: tick tests calibrated only, not the "out" mark.
tickBodyNoLatch(q) ==
    /\ IF calibrated
       THEN \E f \in source :
              LET r == isBlowing(f.rms, f.hf, baselineRMS, baselineHF)
              IN /\ probe' = [rms |-> f.rms, hf |-> f.hf, result |-> r]
                 /\ classifySeq' = 1 - classifySeq
                 /\ out' = (out \/ r)
                 /\ notifications' = IF r THEN notifications + 1 ELSE notifications
       ELSE UNCHANGED detVars
    /\ rafId' = FreshHandle(q)
    /\ rafQueue' = q \cup {[id |-> FreshHandle(q), cb |-> "tick", cal |-> 0]}

\* Slip: tick calls isBlowing first and tests the "out" mark afterwards.
tickBodyUnguarded(q) ==
    /\ \E f \in source :
          LET r == isBlowing(f.rms, f.hf, baselineRMS, baselineHF)
          IN /\ probe' = [rms |-> f.rms, hf |-> f.hf, result |-> r]
             /\ classifySeq' = 1 - classifySeq
             /\ out' = (out \/ (r /\ calibrated))
             /\ notifications' = IF r /\ calibrated /\ ~out
                                  THEN notifications + 1 ELSE notifications
    /\ rafId' = FreshHandle(q)
    /\ rafQueue' = q \cup {[id |-> FreshHandle(q), cb |-> "tick", cal |-> 0]}

\* Slip: if (!isBlowing()).
tickBodyInverted(q) ==
    /\ IF ~out /\ calibrated
       THEN \E f \in source :
              LET r == isBlowing(f.rms, f.hf, baselineRMS, baselineHF)
              IN /\ probe' = [rms |-> f.rms, hf |-> f.hf, result |-> r]
                 /\ classifySeq' = 1 - classifySeq
                 /\ out' = ~r
                 /\ notifications' = IF ~r THEN notifications + 1 ELSE notifications
       ELSE UNCHANGED detVars
    /\ rafId' = FreshHandle(q)
    /\ rafQueue' = q \cup {[id |-> FreshHandle(q), cb |-> "tick", cal |-> 0]}

\* Slip: tick requests the next frame only while the candle is lit.
tickBodyStops(q) ==
    /\ IF ~out /\ calibrated
       THEN \E f \in source :
              LET r == isBlowing(f.rms, f.hf, baselineRMS, baselineHF)
              IN /\ probe' = [rms |-> f.rms, hf |-> f.hf, result |-> r]
                 /\ classifySeq' = 1 - classifySeq
                 /\ out' = r
                 /\ notifications' = IF r THEN notifications + 1 ELSE notifications
       ELSE UNCHANGED detVars
    /\ IF out'
       THEN rafId' = rafId /\ rafQueue' = q
       ELSE /\ rafId' = FreshHandle(q)
            /\ rafQueue' = q \cup {[id |-> FreshHandle(q), cb |-> "tick", cal |-> 0]}

\* The body of tick with q the callbacks still pending.
tickBody(q) ==
    /\ IF ~out /\ calibrated
       THEN \E f \in source :
              LET r == isBlowing(f.rms, f.hf, baselineRMS, baselineHF)
              IN /\ probe' = [rms |-> f.rms, hf |-> f.hf, result |-> r]
                 /\ classifySeq' = 1 - classifySeq
                 /\ out' = r
                 /\ notifications' = IF r THEN notifications + 1 ELSE notifications
       ELSE UNCHANGED detVars
    /\ rafId' = FreshHandle(q)
    /\ rafQueue' = q \cup {[id |-> FreshHandle(q), cb |-> "tick", cal |-> 0]}

\* The reaction of calibrate().then(loopDetect).
loopDetect ==
    /\ event' = "loopDetect"
    /\ thenQueue > 0
    /\ thenQueue' = thenQueue - 1
    /\ tickBody(Cancel(rafQueue, rafId))
    /\ UNCHANGED <<micCalls, gateVars, ctxVars, calibrated, baseVars, cals, now, source, poller, fx>>

\* A frame callback runs tick.
tick(e) ==
    /\ event' = "tick"
    /\ NoReaction
    /\ e.cb = "tick"
    /\ tickBody(rafQueue \ {e})
    /\ UNCHANGED <<micCalls, gateVars, ctxVars, calibrated, baseVars, cals, now,
                   thenQueue, source, poller, fx>>

----------------------------------------------------------------------------
(* initMic and the gesture gate                                            *)

\* initMic returns; a gesture call is awaited by start, which then removes
\* the overlay.
initMicReturns(i) ==
    /\ micCalls' = [micCalls EXCEPT ![i].pc = "done"]
    /\ overlay' = IF micCalls[i].fromGesture THEN FALSE ELSE overlay
    /\ UNCHANGED gates

\* The catch block of initMic after an exception of kind pc ("failed" for a
\* rejected getUserMedia, "threw" for an exception of a later statement of
\* the try block), and the return to start of a gesture call.
initMicCatches(i, pc) ==
    /\ micCalls' = [micCalls EXCEPT ![i].pc = pc]
    /\ IF micCalls[i].fromGesture
       THEN overlay' = FALSE /\ UNCHANGED gates
       ELSE overlay' = TRUE /\ gates' = gates + 1      \* createGestureGate

\* startAnalyser throws, with cs the contexts and ac the value of
\* audioContext initMic left: either new AudioContext() at its first line,
\* or createMediaStreamSource(stream) with the new context and its analyser
\* already assigned.  calibrate() is not reached.
startAnalyserThrows(cs, ac) ==
    /\ \/ /\ ctxs' = cs
          /\ audioContext' = ac
          /\ UNCHANGED analyserCtx
       \/ \E st \in CtxStates :
             /\ ctxs' = Append(cs, st)
             /\ audioContext' = Len(cs) + 1
             /\ analyserCtx' = Len(cs) + 1
    /\ UNCHANGED <<calibrated, baseVars, cals, rafQueue, thenQueue>>

\* The call startAnalyser(stream) of initMic and what follows it.
initMicStartsAnalyser(i, cs, ac) ==
    \/ startAnalyser(cs) /\ initMicReturns(i)
    \/ startAnalyserThrows(cs, ac) /\ initMicCatches(i, "threw")

\* Slip: the catch block creates the gate without testing fromGesture.
getUserMediaRejectedNoTest(i) ==
    /\ event' = "getUserMediaRejected"
    /\ NoReaction
    /\ micCalls[i].pc = "getUserMedia"
    /\ micCalls' = [micCalls EXCEPT ![i].pc = "failed"]
    /\ overlay' = TRUE /\ gates' = gates + 1
    /\ UNCHANGED <<started, ctxVars, calibrated, baseVars, cals, now, rafQueue,
                   rafId, thenQueue, detVars, source, poller, fx>>

\* Slip: startAnalyser is called after the try statement, so also when
\* getUserMedia rejected.
getUserMediaRejectedStarts(i) ==
    /\ event' = "getUserMediaRejected"
    /\ NoReaction
    /\ micCalls[i].pc = "getUserMedia"
    /\ initMicCatches(i, "failed")
    /\ startAnalyser(ctxs)
    /\ UNCHANGED <<started, resuming, now, rafId, detVars, source, poller, fx>>

\* getUserMedia rejects: the catch block.
getUserMediaRejected(i) ==
    /\ event' = "getUserMediaRejected"
    /\ NoReaction
    /\ micCalls[i].pc = "getUserMedia"
    /\ initMicCatches(i, "failed")
    /\ UNCHANGED <<started, ctxVars, calibrated, baseVars, cals, now, rafQueue,
                   rafId, thenQueue, detVars, source, poller, fx>>

\* getUserMedia resolves: create the context if there is none, then either
\* wait for resume() or go on to startAnalyser.  new AudioContext() can
\* throw, which leads to the catch block as every exception of the try
\* block does.
getUserMediaResolved(i) ==
    /\ event' = "getUserMediaResolved"
    /\ NoReaction
    /\ micCalls[i].pc = "getUserMedia"
    /\ \/ /\ audioContext = 0
          /\ initMicCatches(i, "threw")
          /\ UNCHANGED <<ctxVars, calibrated, baseVars, cals, rafQueue, thenQueue>>
       \/ \E st \in CtxStates :
            LET cs == IF audioContext = 0 THEN Append(ctxs, st) ELSE ctxs
                ac == IF audioContext = 0 THEN Len(ctxs) + 1 ELSE audioContext
            IN IF cs[ac] = "suspended"
               THEN /\ micCalls' = [micCalls EXCEPT ![i].pc = "resume", ![i].ctx = ac]
                    /\ resuming' = resuming \cup {ac}
                    /\ ctxs' = cs
                    /\ audioContext' = ac
                    /\ UNCHANGED <<overlay, gates, analyserCtx, calibrated, cals,
                                   rafQueue, baseVars, thenQueue>>
               ELSE /\ initMicStartsAnalyser(i, cs, ac)
                    /\ UNCHANGED resuming
    /\ UNCHANGED <<started, now, rafId, detVars, source, poller, fx>>

\* The platform settles the resume() promises of context c: the context
\* runs, or the promises are rejected and it stays as it is.  An initMic
\* that awaits one of them gets its continuation queued; its catch {} and
\* that of tryResume swallow a rejection.
resumePromiseSettles(c) ==
    /\ event' = "resumePromiseSettles"
    /\ NoReaction
    /\ c \in resuming
    /\ resuming' = resuming \ {c}
    /\ \E ok \in BOOLEAN :
         ctxs' = IF ok THEN [ctxs EXCEPT ![c] = "running"] ELSE ctxs
    /\ micCalls' = [i \in DOMAIN micCalls |->
                      IF micCalls[i].pc = "resume" /\ micCalls[i].ctx = c
                      THEN [micCalls[i] EXCEPT !.pc = "resumed", !.ctx = 0]
                      ELSE micCalls[i]]
    /\ UNCHANGED <<gateVars, audioContext, analyserCtx, calibrated, baseVars, cals,
                   now, rafQueue, rafId, thenQueue, detVars, source, poller, fx>>

\* initMic goes on after await audioContext.resume().
resumeSettled(i) ==
    /\ event' = "resumeSettled"
    /\ micCalls[i].pc = "resumed"
    /\ initMicStartsAnalyser(i, ctxs, audioContext)
    /\ UNCHANGED <<started, resuming, now, rafId, detVars, source, poller, fx>>

\* Slip: the start handler does not test the started latch.
startNoLatch ==
    /\ event' = "start"
    /\ NoReaction
    /\ overlay
    /\ started' = TRUE
    /\ micCalls' = Append(micCalls,
                          [fromGesture |-> TRUE, pc |-> "getUserMedia", ctx |-> 0])
    /\ UNCHANGED <<overlay, gates, ctxVars, calibrated, baseVars, cals, now,
                   rafQueue, rafId, thenQueue, detVars, source, poller, fx>>

\* touchend or click on the overlay: the start handler.
start ==
    /\ event' = "start"
    /\ NoReaction
    /\ overlay
    /\ IF started
       THEN UNCHANGED <<started, micCalls>>
       ELSE /\ started' = TRUE
            /\ micCalls' = Append(micCalls,
                                  [fromGesture |-> TRUE, pc |-> "getUserMedia", ctx |-> 0])
    /\ UNCHANGED <<overlay, gates, ctxVars, calibrated, baseVars, cals, now,
                   rafQueue, rafId, thenQueue, detVars, source, poller, fx>>

----------------------------------------------------------------------------
(* Resume hook and the platform                                            *)

\* Slip: the hook creates a context when there is none, as initMic does.
tryResumeCreates ==
    /\ event' = "tryResume"
    /\ NoReaction
    /\ poller.pc = "absent"
    /\ IF audioContext = 0
       THEN \E st \in CtxStates :
              /\ ctxs' = Append(ctxs, st)
              /\ audioContext' = Len(ctxs) + 1
              /\ UNCHANGED resuming
       ELSE /\ UNCHANGED <<ctxs, audioContext>>
            /\ resuming' = IF ctxs[audioContext] = "suspended"
                           THEN resuming \cup {audioContext}
                           ELSE resuming
    /\ UNCHANGED <<micCalls, gateVars, analyserCtx, calibrated,
                   baseVars, cals, now, rafQueue, rafId, thenQueue, detVars, source, poller, fx>>

\* touchend or click on the body, where script.js installed the listeners:
\* tryResume up to its await; the promise of resume() is settled by the
\* platform later.
tryResume ==
    /\ event' = "tryResume"
    /\ NoReaction
    /\ poller.pc = "absent"
    /\ resuming' = IF audioContext # 0 /\ ctxs[audioContext] = "suspended"
                   THEN resuming \cup {audioContext}
                   ELSE resuming
    /\ UNCHANGED <<micCalls, gateVars, ctxs, audioContext, analyserCtx, calibrated,
                   baseVars, cals, now, rafQueue, rafId, thenQueue, detVars, source, poller, fx>>

\* The contexts the page can still reach: the value of audioContext, the
\* context of the analyser, and those an initMic awaits the resume() of.
Referenced ==
    ({audioContext, analyserCtx} \cup {micCalls[i].ctx : i \in DOMAIN micCalls})
        \cap DOMAIN ctxs

\* The platform suspends audio processing of a context the page can reach.
platformSuspends(i) ==
    /\ event' = "platformSuspends"
    /\ NoReaction
    /\ i \in Referenced
    /\ ctxs[i] = "running"
    /\ ctxs' = [ctxs EXCEPT ![i] = "suspended"]
    /\ UNCHANGED <<micCalls, gateVars, audioContext, analyserCtx, resuming, calibrated,
                   baseVars, cals, now, rafQueue, rafId, thenQueue, detVars, source, poller, fx>>

----------------------------------------------------------------------------
Next ==
    \/ \E i \in DOMAIN micCalls : getUserMediaRejected(i)
    \/ \E i \in DOMAIN micCalls : getUserMediaResolved(i)
    \/ \E c \in resuming : resumePromiseSettles(c)
    \/ \E i \in DOMAIN micCalls : resumeSettled(i)
    \/ start
    \/ \E e \in rafQueue : step(e)
    \/ loopDetect
    \/ \E e \in rafQueue : tick(e)
    \/ tryResume
    \/ \E i \in DOMAIN ctxs : platformSuspends(i)

Spec == Init /\ [][Next]_vars

----------------------------------------------------------------------------
(* Sweep of calibrate: the non-gesture attempt has succeeded with running  *)
(* contexts, calibrate() has run its first step() on any sample frame, and *)
(* the frame callbacks deliver any sample frames.                          *)

InitCalibrate ==
    /\ micCalls = <<[fromGesture |-> FALSE, pc |-> "done", ctx |-> 0]>>
    /\ started = FALSE
    /\ overlay = FALSE
    /\ gates = 0
    /\ ctxs = <<"running", "running">>
    /\ audioContext = 2
    /\ analyserCtx = 2
    /\ resuming = {}
    /\ calibrated = FALSE
    /\ baselineRMS = 0
    /\ baselineHF = 0
    /\ \E f \in SampleFrames :
          cals = <<[t0 |-> 0, rmsBuf |-> <<f.rms>>, hfBuf |-> <<f.hf>>,
                    resolved |-> FALSE,
                    log |-> <<[rms |-> f.rms, hf |-> f.hf, at |-> 0]>>]>>
    /\ now = 0
    /\ rafQueue = {[id |-> 1, cb |-> "step", cal |-> 1]}
    /\ rafId = 0
    /\ thenQueue = 0
    /\ out = FALSE
    /\ notifications = 0
    /\ classifySeq = 0
    /\ probe = NoProbe
    /\ source = SampleFrames
    /\ event = "getUserMediaResolved"
    /\ poller = NoPoller
    /\ fx = NoFx

NextCalibrate == \E e \in rafQueue : step(e)

SpecCalibrate == InitCalibrate /\ [][NextCalibrate]_vars

----------------------------------------------------------------------------
(* Sweep of isBlowing: calibration has just finished on two equal frames   *)
(* (the second one throttled past the window), so any baseline of the      *)
(* range is in place, and the analyser keeps delivering one frame of the   *)
(* sweep, any of them.                                                     *)

InitClassify ==
    /\ micCalls = <<[fromGesture |-> FALSE, pc |-> "done", ctx |-> 0]>>
    /\ started = FALSE
    /\ overlay = FALSE
    /\ gates = 0
    /\ ctxs = <<"running", "running">>
    /\ audioContext = 2
    /\ analyserCtx = 2
    /\ resuming = {}
    /\ calibrated = TRUE
    /\ baselineRMS \in 0..MaxBaseline
    /\ baselineHF \in 0..MaxBaseline
    /\ cals = <<[t0 |-> 0, rmsBuf |-> <<baselineRMS, baselineRMS>>,
                 hfBuf |-> <<baselineHF, baselineHF>>, resolved |-> TRUE,
                 log |-> <<[rms |-> baselineRMS, hf |-> baselineHF, at |-> 0],
                           [rms |-> baselineRMS, hf |-> baselineHF, at |-> 5 * MinGap]>>]>>
    /\ now = 5 * MinGap
    /\ rafQueue = {}
    /\ rafId = 0
    /\ thenQueue = 1
    /\ out = FALSE
    /\ notifications = 0
    /\ classifySeq = 0
    /\ probe = NoProbe
    /\ source \in {{f} : f \in SweepFrames}
    /\ event = "step"
    /\ poller = NoPoller
    /\ fx = NoFx

NextClassify ==
    \/ loopDetect
    \/ \E e \in rafQueue : tick(e)

SpecClassify == InitClassify /\ [][NextClassify]_vars

----------------------------------------------------------------------------
(* The session under the host's scheduling: a requested frame callback is  *)
(* delivered and a queued promise reaction or continuation runs.           *)

LiveSpec ==
    /\ Spec
    /\ WF_vars(\E i \in DOMAIN micCalls : resumeSettled(i))
    /\ WF_vars(\E e \in rafQueue : step(e))
    /\ WF_vars(loopDetect)
    /\ WF_vars(\E e \in rafQueue : tick(e))

----------------------------------------------------------------------------
(* Sweep of computeHighFreqAvg over every buffer of up to MaxLen bins and   *)
(* the spike buffers of the lengths RoundedLens.                           *)

extract ==
    /\ fx.hf = NoFx.hf
    /\ fx' = [fx EXCEPT !.hf = computeHighFreqAvg(fx.fd)]
    /\ event' = "computeHighFreqAvg"
    /\ UNCHANGED <<micCalls, gateVars, ctxVars, calibrated, baseVars, cals, now,
                   rafQueue, rafId, thenQueue, detVars, source, poller>>

InitExtract ==
    /\ micCalls = <<[fromGesture |-> FALSE, pc |-> "getUserMedia", ctx |-> 0]>>
    /\ started = FALSE
    /\ overlay = FALSE
    /\ gates = 0
    /\ ctxs = <<>>
    /\ audioContext = 0
    /\ analyserCtx = 0
    /\ resuming = {}
    /\ calibrated = FALSE
    /\ baselineRMS = 0
    /\ baselineHF = 0
    /\ cals = <<>>
    /\ now = 0
    /\ rafQueue = {}
    /\ rafId = 0
    /\ thenQueue = 0
    /\ out = FALSE
    /\ notifications = 0
    /\ classifySeq = 0
    /\ probe = NoProbe
    /\ source = SessionFrames
    /\ event = "DOMContentLoaded"
    /\ poller = NoPoller
    /\ fx \in {[fd |-> b, hf |-> NoFx.hf] : b \in FreqBuffers}

SpecExtract == InitExtract /\ [][extract]_vars

----------------------------------------------------------------------------
(* The older variant, src/unnamed/part_000                                 *)

\* The page loaded part_000: getUserMedia is pending, or the browser has no
\* getUserMedia and the script only logged that.
InitPart000 ==
    /\ micCalls = <<>>
    /\ started = FALSE
    /\ overlay = FALSE
    /\ gates = 0
    /\ ctxs = <<>>
    /\ audioContext = 0
    /\ analyserCtx = 0
    /\ resuming = {}
    /\ calibrated = FALSE
    /\ baselineRMS = 0
    /\ baselineHF = 0
    /\ cals = <<>>
    /\ now = 0
    /\ rafQueue = {}
    /\ rafId = 0
    /\ thenQueue = 0
    /\ out = FALSE
    /\ notifications = 0
    /\ classifySeq = 0
    /\ probe = NoProbe
    /\ source = SessionFrames
    /\ event = "DOMContentLoaded"
    /\ poller \in {[pc |-> q, dataArray |-> <<>>] : q \in {"getUserMedia", "unsupported"}}
    /\ fx = NoFx

\* The then-callback of getUserMedia: context, analyser, source, and the
\* timer.  new AudioContext() or createMediaStreamSource can throw, the
\* second with the context and the analyser assigned; the catch-callback
\* logs the exception and no timer is installed.
getUserMediaThen ==
    /\ event' = "getUserMediaThen"
    /\ poller.pc = "getUserMedia"
    /\ \/ /\ poller' = [poller EXCEPT !.pc = "caught"]
          /\ UNCHANGED <<ctxs, audioContext, analyserCtx>>
       \/ \E st \in CtxStates, pc \in {"caught", "interval"} :
             /\ poller' = [poller EXCEPT !.pc = pc]
             /\ ctxs' = Append(ctxs, st)
             /\ audioContext' = Len(ctxs) + 1
             /\ analyserCtx' = Len(ctxs) + 1
    /\ UNCHANGED <<micCalls, gateVars, resuming, calibrated, baseVars, cals, now,
                   rafQueue, rafId, thenQueue, detVars, source, fx>>

\* getUserMedia rejects: the catch-callback logs the error.
getUserMediaCatch ==
    /\ event' = "getUserMediaCatch"
    /\ poller.pc = "getUserMedia"
    /\ poller' = [poller EXCEPT !.pc = "caught"]
    /\ UNCHANGED <<micCalls, gateVars, ctxVars, calibrated, baseVars, cals, now,
                   rafQueue, rafId, thenQueue, detVars, source, fx>>

\* The timer callback: isBlowing is called only while the candle is lit.
blowOutCandle ==
    /\ event' = "blowOutCandle"
    /\ poller.pc = "interval"
    /\ IF ~out
       THEN \E d \in DataArrays :
              /\ poller' = [poller EXCEPT !.dataArray = d]
              /\ classifySeq' = 1 - classifySeq
              /\ out' = isBlowingPart000(d)
              /\ notifications' = IF isBlowingPart000(d) THEN notifications + 1
                                  ELSE notifications
       ELSE UNCHANGED <<poller, classifySeq, out, notifications>>
    /\ UNCHANGED <<micCalls, gateVars, ctxVars, calibrated, baseVars, cals, now,
                   rafQueue, rafId, thenQueue, probe, source, fx>>

NextPart000 ==
    \/ getUserMediaThen
    \/ getUserMediaCatch
    \/ blowOutCandle

\* A session of a page with either script.
SpecVariants == (Init \/ InitPart000) /\ [][Next \/ NextPart000]_vars

----------------------------------------------------------------------------
(* Properties                                                              *)

Rank(s) ==
    CASE s = "Uncalibrated" -> 0
      [] s = "Calibrating"  -> 1
      [] s = "Armed"        -> 2
      [] s = "Triggered"    -> 3

RmsOf(log) == [i \in DOMAIN log |-> log[i].rms]
HfOf(log) == [i \in DOMAIN log |-> log[i].hf]

\* v stands at 0-based index k when s is put in ascending order.
IsAtSortedIndex(s, k, v) ==
    /\ Cardinality({i \in DOMAIN s : s[i] < v}) <= k
    /\ k < Cardinality({i \in DOMAIN s : s[i] <= v})

ValueAtSortedIndex(s, k) ==
    CHOOSE v \in {s[i] : i \in DOMAIN s} : IsAtSortedIndex(s, k, v)

Outliers(s, v) == {i \in DOMAIN s : s[i] # v}

\* The decision rule as the specification words it.
RuleOfSpec(energy, tilt, bEnergy, bTilt) ==
    \/ tilt > bTilt + 18
    \/ /\ tilt > bTilt + 6
       /\ tilt > 14
       /\ \/ (energy > bEnergy + 5 /\ energy > 10)
          \/ energy > bEnergy + 12

\* The samples of the session's calibration.
CalLog == cals[1].log

QuietCalibration ==
    /\ Len(cals) = 1
    /\ \A i \in DOMAIN CalLog : CalLog[i].rms \in 1..3 /\ CalLog[i].hf \in 2..4

\* C1: the "out" mark is added at most once in a session, and only by a
\* tick (of loopDetect in script.js, of the timer in part_000) that takes
\* the detector from Armed to Triggered.
C1_TriggerOnce ==
    [][ /\ notifications' <= 1
        /\ notifications' # notifications =>
              /\ notifications' = notifications + 1
              /\ \/ event' \in {"loopDetect", "tick"} /\ rafId' # rafId
                 \/ event' = "blowOutCandle"
              /\ DetectorState = "Armed"
              /\ DetectorState' = "Triggered" ]_vars

C1_Witness ==
    /\ notifications = 1
    /\ out
    /\ probe.result

\* C2: isBlowing is called only while the detector is Armed: never while
\* calibrated is false and never once the candle is out.
C2_ClassifyOnlyArmed ==
    [][ classifySeq' # classifySeq =>
          (DetectorState = "Armed" /\ calibrated /\ ~out) ]_vars

C2_Witness ==
    /\ probe # NoProbe
    /\ ~probe.result
    /\ started
    /\ \E i \in DOMAIN ctxs : ctxs[i] = "suspended"

\* C3: the detector state stays or advances by exactly one position in
\* Uncalibrated, Calibrating, Armed, Triggered; so it never goes back,
\* never skips, and never leaves Triggered.
C3_StateOrder ==
    [][ \/ DetectorState' = DetectorState
        \/ Rank(DetectorState') = Rank(DetectorState) + 1 ]_vars

C3_Witness ==
    /\ DetectorState = "Triggered"
    /\ Len(CalLog) >= 3
    /\ \E e \in rafQueue : e.cb = "tick"

\* C4: calibrate runs at most once, and once calibrated is true neither it
\* nor the baseline changes again.
C4_BaselineFixed ==
    [][ /\ Len(cals') <= 1
        /\ calibrated =>
              /\ calibrated'
              /\ baselineRMS' = baselineRMS
              /\ baselineHF' = baselineHF ]_vars

C4_Witness ==
    /\ calibrated
    /\ started
    /\ Len(micCalls) = 2
    /\ classifySeq = 1
    /\ baselineRMS = 15

\* C5: isBlowing returns true exactly when the rule of the specification
\* holds, with strict comparisons: on a zero baseline (0, 19) and (11, 15)
\* are blows, (0, 18) and (9, 15) are not.
C5_ClassifierRule ==
    /\ probe # NoProbe =>
          (probe.result <=> RuleOfSpec(probe.rms, probe.hf, baselineRMS, baselineHF))
    /\ (baselineRMS = 0 /\ baselineHF = 0 /\ probe # NoProbe) =>
          /\ (probe.rms = 0 /\ probe.hf = 19) => probe.result
          /\ (probe.rms = 0 /\ probe.hf = 18) => ~probe.result
          /\ (probe.rms = 11 /\ probe.hf = 15) => probe.result
          /\ (probe.rms = 9 /\ probe.hf = 15) => ~probe.result

C5_Witness ==
    /\ baselineRMS = 0
    /\ baselineHF = 0
    /\ probe = [rms |-> 11, hf |-> 15, result |-> TRUE]
    /\ out

\* C6: a tick that runs while Armed and reads a frame isBlowing accepts
\* leaves the detector Triggered with exactly one notification; after a
\* calibration on quiet frames the frame (15, 25) is such a frame.
C6_TriggerOnBlow ==
    /\ [][ ( /\ DetectorState = "Armed"
             /\ classifySeq' # classifySeq
             /\ isBlowing(probe'.rms, probe'.hf, baselineRMS, baselineHF) )
           => (DetectorState' = "Triggered" /\ notifications' = 1) ]_vars
    /\ []( (calibrated /\ QuietCalibration /\ probe.rms = 15 /\ probe.hf = 25)
           => (DetectorState = "Triggered" /\ notifications = 1) )

C6_Witness ==
    /\ calibrated
    /\ QuietCalibration
    /\ Len(CalLog) >= 4
    /\ probe.rms = 15 /\ probe.hf = 25
    /\ out
    /\ notifications = 1

\* C7: when calibration has completed on n samples, each baseline value is
\* the element at index floor(n/2) of that feature's samples in ascending
\* order; an empty buffer gives 0.
C7_BaselineIsMiddle ==
    /\ medianOrZero(sortAsc(<<>>)) = 0
    /\ calibrated =>
          /\ IsAtSortedIndex(RmsOf(CalLog), Len(CalLog) \div 2, baselineRMS)
          /\ IsAtSortedIndex(HfOf(CalLog), Len(CalLog) \div 2, baselineHF)

C7_Witness ==
    /\ calibrated
    /\ Len(CalLog) = 5
    /\ RmsOf(CalLog) = <<3, 0, 2, 1, 0>>
    /\ baselineRMS = 1

\* C8 as claimed: for an even number of samples the baseline value is the
\* smaller of the two middle elements.
C8_LowerMedian ==
    (calibrated /\ Len(CalLog) % 2 = 0) =>
        /\ IsAtSortedIndex(RmsOf(CalLog), Len(CalLog) \div 2 - 1, baselineRMS)
        /\ IsAtSortedIndex(HfOf(CalLog), Len(CalLog) \div 2 - 1, baselineHF)

\* C8 amended: for an even number of samples the baseline value is the
\* upper median, the larger of the two middle elements.
C8_UpperMedian ==
    (calibrated /\ Len(CalLog) % 2 = 0) =>
        LET h == Len(CalLog) \div 2
        IN /\ baselineRMS = Max(ValueAtSortedIndex(RmsOf(CalLog), h - 1),
                                ValueAtSortedIndex(RmsOf(CalLog), h))
           /\ baselineHF = Max(ValueAtSortedIndex(HfOf(CalLog), h - 1),
                               ValueAtSortedIndex(HfOf(CalLog), h))

C8_Witness ==
    /\ calibrated
    /\ Len(CalLog) = 4
    /\ ValueAtSortedIndex(RmsOf(CalLog), 1) < ValueAtSortedIndex(RmsOf(CalLog), 2)
    /\ baselineRMS = ValueAtSortedIndex(RmsOf(CalLog), 2)

\* C9: if all samples of a feature equal v, or all but one do and there
\* are at least three, the baseline value of that feature is v.
C9_OutlierIgnored ==
    calibrated =>
        \A v \in 0..MaxSample :
            /\ ( \/ Outliers(RmsOf(CalLog), v) = {}
                 \/ (Len(CalLog) >= 3 /\ Cardinality(Outliers(RmsOf(CalLog), v)) = 1) )
               => baselineRMS = v
            /\ ( \/ Outliers(HfOf(CalLog), v) = {}
                 \/ (Len(CalLog) >= 3 /\ Cardinality(Outliers(HfOf(CalLog), v)) = 1) )
               => baselineHF = v

C9_Witness ==
    /\ calibrated
    /\ RmsOf(CalLog) = <<1, 1, 1, 1, 3>>
    /\ baselineRMS = 1

\* C10: with energy and baseline fixed, a tilt that isBlowing accepts stays
\* accepted at every higher tilt.
C10_MonotoneInTilt ==
    (probe # NoProbe /\ probe.result) =>
        \A h \in (probe.hf + 1)..(MaxBaseline + 20) :
            isBlowing(probe.rms, h, baselineRMS, baselineHF)

C10_Witness ==
    /\ probe # NoProbe
    /\ probe.result
    /\ probe.hf <= baselineHF + 18
    /\ baselineHF = 9

\* C11: a step of calibrate ends the calibration exactly when at least
\* 1200 ms have passed since its start, then the one baseline is in place
\* and the detector goes from Calibrating to Armed; and with frame
\* callbacks delivered, a started calibration does end.
C11_CalibrationTerminates ==
    /\ [][ event' = "step" =>
             /\ DetectorState = "Calibrating"
             /\ ~cals[1].resolved
             /\ IF now' - cals[1].t0 >= 1200
                THEN /\ DetectorState' = "Armed"
                     /\ cals'[1].resolved
                     /\ thenQueue' = 1
                     /\ ~(\E e \in rafQueue' : e.cb = "step")
                ELSE /\ DetectorState' = "Calibrating"
                     /\ thenQueue' = 0
                     /\ \E e \in rafQueue' : e.cb = "step" ]_vars
    /\ (Len(cals) > 0) ~> calibrated

C11_Witness ==
    /\ calibrated
    /\ event = "step"
    /\ Len(CalLog) = 5
    /\ now = 4 * MinGap
    /\ thenQueue = 1

\* The activations of initMic(true).
GestureCalls == {i \in DOMAIN micCalls : micCalls[i].fromGesture}

\* No getUserMedia call of the session has resolved.
NoAcquisition ==
    \A i \in DOMAIN micCalls : micCalls[i].pc \in {"getUserMedia", "failed"}

\* The positions of an initMic that ended in its catch block.
Caught == {"failed", "threw"}

\* C12: a gesture gate is created only by the failure of the non-gesture
\* initMic attempt (a rejected getUserMedia or an exception of a later
\* statement of its try block), there is never more than one gate, and
\* initMic(true) is called at most once, however many overlay events
\* arrive, also while the retry waits for getUserMedia.
C12_OneGateOneRetry ==
    /\ []( /\ gates <= 1
           /\ Cardinality(GestureCalls) <= 1
           /\ (GestureCalls # {}) <=> started
           /\ started => (gates = 1 /\ micCalls[1].pc \in Caught) )
    /\ [][ gates' # gates =>
             /\ event' \in {"getUserMediaRejected", "getUserMediaResolved",
                            "resumeSettled"}
             /\ Len(micCalls) = 1
             /\ ~micCalls[1].fromGesture
             /\ micCalls[1].pc \notin Caught
             /\ micCalls'[1].pc \in Caught ]_vars
    /\ [][ (event' = "start" /\ started) => micCalls' = micCalls ]_vars

C12_Witness ==
    /\ event = "start"
    /\ gates = 1
    /\ started
    /\ Len(micCalls) = 2
    /\ micCalls[2].pc = "getUserMedia"

\* C13: a rejected getUserMedia changes nothing of the detection, and as
\* long as no getUserMedia call has resolved the detector is Uncalibrated,
\* calibrated is false, isBlowing was never called and nothing triggered.
C13_FailureHarmless ==
    /\ []( NoAcquisition =>
             /\ DetectorState = "Uncalibrated"
             /\ ~calibrated
             /\ baselineRMS = 0 /\ baselineHF = 0
             /\ classifySeq = 0 /\ probe = NoProbe
             /\ ~out /\ notifications = 0
             /\ rafQueue = {} /\ thenQueue = 0
             /\ analyserCtx = 0 )
    /\ [][ event' = "getUserMediaRejected" =>
             UNCHANGED <<ctxVars, calibrated, baseVars, cals, now, rafQueue, rafId,
                         thenQueue, detVars>> ]_vars

C13_Witness ==
    /\ Len(micCalls) = 2
    /\ micCalls[1].pc = "failed"
    /\ micCalls[2].pc = "failed"
    /\ ~overlay
    /\ DetectorState = "Uncalibrated"

\* C14: tryResume, in any state, leaves the detector state, calibrated, the
\* baseline and the "out" mark as they are; without a context, or with a
\* context that is not suspended, it changes nothing; otherwise it only
\* asks the platform to resume the context.  When the platform settles the
\* request, the detector is left as it is again: the suspended context
\* turns to running, or the request fails and no context changes.
C14_ResumeFrame ==
    /\ [][ event' = "tryResume" =>
             /\ UNCHANGED <<micCalls, gateVars, ctxs, audioContext, analyserCtx,
                            calibrated, baseVars, cals, now, rafQueue, rafId,
                            thenQueue, detVars>>
             /\ DetectorState' = DetectorState
             /\ (audioContext = 0 \/ ctxs[audioContext] # "suspended")
                   => resuming' = resuming
             /\ resuming' \subseteq resuming \cup {audioContext} ]_vars
    /\ [][ event' = "resumePromiseSettles" =>
             /\ UNCHANGED <<gateVars, audioContext, analyserCtx, calibrated,
                            baseVars, cals, now, rafQueue, rafId, thenQueue,
                            detVars>>
             /\ DetectorState' = DetectorState
             /\ Len(ctxs') = Len(ctxs)
             /\ \A i \in DOMAIN ctxs :
                   ctxs'[i] # ctxs[i] =>
                       /\ i \in resuming \ resuming'
                       /\ ctxs[i] = "suspended"
                       /\ ctxs'[i] = "running" ]_vars

\* The platform has refused a resume() that tryResume asked for while the
\* detector was Armed.
C14_Witness ==
    /\ event = "resumePromiseSettles"
    /\ DetectorState = "Armed"
    /\ ctxs[audioContext] = "suspended"
    /\ audioContext \notin resuming
    /\ \A i \in DOMAIN micCalls : micCalls[i].pc = "done"

\* floor(num / den) for naturals, stated by its defining inequalities.
FloorOf(num, den) == CHOOSE k \in 0..num : den * k <= num /\ num < den * (k + 1)

\* The 0-based indices of the hiss band of a buffer of L bins.
Band(L) == {i \in 0..(L - 1) : FloorOf(35 * L, 100) <= i /\ i < FloorOf(9 * L, 10)}

RECURSIVE SumOver(_, _)
SumOver(freqData, S) ==
    IF S = {} THEN 0
    ELSE LET i == CHOOSE j \in S : TRUE
         IN freqData[i + 1] + SumOver(freqData, S \ {i})

\* C15 as claimed: for a buffer of L bins computeHighFreqAvg gives the mean
\* of the bins with index in [floor(0.35 L), floor(0.9 L)), and the number
\* 0 when that range is empty, as it is for L = 0 and L = 1.
C15_TiltOfBand ==
    fx.hf # NoFx.hf =>
        LET L == Len(fx.fd)
        IN /\ Band(L) = {} => fx.hf = <<0, 1>>
           /\ Band(L) # {} =>
                 fx.hf = <<SumOver(fx.fd, Band(L)), Cardinality(Band(L))>>
           /\ L \in {0, 1} => fx.hf = <<0, 1>>

\* C16: every tick, the first one of loopDetect included, leaves a request
\* for the next tick, Armed or Triggered and whatever isBlowing returned;
\* an Armed tick with a false classification stays Armed; and with frame
\* callbacks delivered, ticks go on for ever once the loop has started.
C16_TicksForEver ==
    /\ [][ event' \in {"loopDetect", "tick"} =>
             /\ rafId' # 0
             /\ \E e \in rafQueue' : e.cb = "tick" /\ e.id = rafId' ]_vars
    /\ [][ ( /\ event' \in {"loopDetect", "tick"}
             /\ DetectorState = "Armed"
             /\ ~isBlowing(probe'.rms, probe'.hf, baselineRMS, baselineHF) )
           => DetectorState' = "Armed" ]_vars
    /\ \/ <>[](rafId = 0)
       \/ []<><<event' = "tick">>_vars

C16_Witness ==
    /\ event = "tick"
    /\ DetectorState = "Triggered"
    /\ \E e \in rafQueue : e.cb = "tick" /\ e.id = rafId
    /\ \E i \in DOMAIN ctxs : ctxs[i] = "suspended"

\* C17 as claimed: every sample of the baseline was read less than 1200 ms
\* after the start of calibration.
C17_AllInWindow ==
    calibrated =>
        \A i \in DOMAIN CalLog : CalLog[i].at - cals[1].t0 < 1200

\* C17 amended: every sample but the last was read less than 1200 ms after
\* the start; the last one, read by the step that ends the calibration, was
\* read at 1200 ms or later.
C17_LastSampleLate ==
    calibrated =>
        /\ Len(CalLog) >= 2
        /\ \A i \in 1..(Len(CalLog) - 1) : CalLog[i].at - cals[1].t0 < 1200
        /\ CalLog[Len(CalLog)].at - cals[1].t0 >= 1200
        /\ Len(cals[1].rmsBuf) = Len(CalLog)
        /\ Len(cals[1].hfBuf) = Len(CalLog)

C17_Witness ==
    /\ calibrated
    /\ Len(CalLog) = 3
    /\ CalLog[3].at - cals[1].t0 = 6 * MinGap
    /\ CalLog[3].rms = 15
    /\ baselineRMS = 15

\* C18: at most one frame callback is pending at any time; a pending step
\* means the calibration is unfinished and no tick has run, a pending tick
\* means the baseline is set and it is the one request of the tick chain.
C18_OneFrameRequest ==
    /\ Cardinality(rafQueue) <= 1
    /\ thenQueue > 0 => rafQueue = {}
    /\ \A e \in rafQueue :
          /\ e.cb = "step" =>
                (~calibrated /\ ~cals[e.cal].resolved /\ rafId = 0 /\ classifySeq = 0)
          /\ e.cb = "tick" =>
                (calibrated /\ cals[1].resolved /\ e.id = rafId)
    /\ event \in {"loopDetect", "tick"} => calibrated

C18_Witness ==
    /\ event = "tick"
    /\ Cardinality(rafQueue) = 1
    /\ started
    /\ ~out

\* C19 as claimed: a session creates at most one audio context, the one
\* the analyser belongs to and the variable audioContext names.
C19_OneContext ==
    /\ Len(ctxs) <= 1
    /\ analyserCtx # 0 => (analyserCtx = 1 /\ audioContext = 1)

\* The rule of the specification without energy > baseline.energy + 12.
RuleWithoutOffset12(energy, tilt, bEnergy, bTilt) ==
    \/ tilt > bTilt + 18
    \/ /\ tilt > bTilt + 6
       /\ tilt > 14
       /\ energy > bEnergy + 5
       /\ energy > 10

\* C20: with a baseline energy of 0 or more, isBlowing decides as the rule
\* without the disjunct energy > baseline.energy + 12 does.
C20_Offset12Redundant ==
    (probe # NoProbe /\ baselineRMS >= 0) =>
        (probe.result <=>
            RuleWithoutOffset12(probe.rms, probe.hf, baselineRMS, baselineHF))

C20_Witness ==
    /\ probe # NoProbe
    /\ probe.result
    /\ baselineRMS = 0
    /\ probe.rms = baselineRMS + 13
    /\ probe.hf = 15

====
